---- MODULE Spec2Model ----
(***************************************************************************)
(* Subtree Prune-and-Regraft on an index-addressed binary tree             *)
(* (src/main.rs): the spr operator and the workflow of main that lowers a  *)
(* parsed tree to a FlatTree, locates donor and recipient by name,         *)
(* validates the move, calls spr, recomputes the root and lifts the arena  *)
(* back to a hierarchical tree.                                            *)
(*                                                                         *)
(* Option<T> is modelled as a sequence of length 0 (None) or 1 (Some(v)).  *)
(* Arena indices are 0-based as in the source.  The f64 time 0.5 is kept   *)
(* in tenths.                                                              *)
(***************************************************************************)
EXTENDS Integers, Sequences, FiniteSets, TLC

\* Largest number of leaves of an input tree.
MaxLeaves == 4

\* The time passed by main to spr (0.5), in tenths.
SprTime == 5

None == <<>>
Some(v) == <<v>>
Unwrap(o) == o[1]

LeafNames == <<"A", "B", "C", "D", "E", "F", "G">>
InnerNames == <<"P", "Q", "R", "S", "T", "U", "V">>
\* A name that no node carries.
AbsentName == "Z"

----------------------------------------------------------------------------
(* Hierarchical trees (the parser's output).                               *)

Leaf(n) == [name |-> n, kids |-> <<>>]
Inner(n, l, r) == [name |-> n, kids |-> <<l, r>>]
IsLeaf(t) == t.kids = <<>>

RECURSIVE NodeCount(_)
NodeCount(t) == IF IsLeaf(t) THEN 1 ELSE 1 + NodeCount(t.kids[1]) + NodeCount(t.kids[2])

\* Every binary tree whose leaves are numbered lo..hi left to right and whose
\* internal nodes are numbered in pre-order from ii; named internal nodes
\* when named is TRUE, internal nodes with an empty name otherwise.
RECURSIVE TreesOver(_, _, _, _)
TreesOver(lo, hi, ii, named) ==
    IF lo = hi THEN {Leaf(LeafNames[lo])}
    ELSE UNION { { Inner(IF named THEN InnerNames[ii] ELSE "", l, r) :
                      l \in TreesOver(lo, k, ii + 1, named),
                      r \in TreesOver(k + 1, hi, ii + 1 + (k - lo), named) } :
                 k \in lo..(hi - 1) }

InputTrees == UNION { TreesOver(1, n, 1, named) : n \in 1..MaxLeaves, named \in BOOLEAN }

InputNames ==
    { LeafNames[i] : i \in 1..MaxLeaves } \cup { InnerNames[i] : i \in 1..(MaxLeaves - 1) }
        \cup {"", AbsentName}

----------------------------------------------------------------------------
(* The arena.                                                              *)

Node(n, p, l, r, d) ==
    [name |-> n, parent |-> p, left_child |-> l, right_child |-> r, depth |-> d]

\* to_flat_tree: a node is visited, assigned the next index, and its children
\* are lowered recursively with their parent set to that index.
RECURSIVE LowerAt(_, _, _)
LowerAt(t, par, idx) ==
    IF IsLeaf(t)
    THEN (idx :> Node(t.name, par, None, None, None))
    ELSE LET li == idx + 1
             ri == idx + 1 + NodeCount(t.kids[1])
         IN  (idx :> Node(t.name, par, Some(li), Some(ri), None))
                 @@ LowerAt(t.kids[1], Some(idx), li)
                 @@ LowerAt(t.kids[2], Some(idx), ri)

ToFlatTree(t) == [nodes |-> LowerAt(t, None, 0), root |-> 0]

Indices(ft) == DOMAIN ft.nodes

\* iter(TraversalOrder::PreOrder): node, then left subtree, then right subtree,
\* from the root.  fuel bounds the recursion by the number of nodes.
RECURSIVE PreOrderFrom(_, _, _)
PreOrderFrom(ft, i, fuel) ==
    IF fuel = 0 THEN <<>>
    ELSE IF ft.nodes[i].left_child = None THEN <<i>>
    ELSE <<i>> \o PreOrderFrom(ft, Unwrap(ft.nodes[i].left_child), fuel - 1)
               \o PreOrderFrom(ft, Unwrap(ft.nodes[i].right_child), fuel - 1)

PreOrder(ft) == PreOrderFrom(ft, ft.root, Cardinality(Indices(ft)))

\* Iterator::position over the pre-order traversal: the 0-based position of the
\* first node carrying the name, None when no node carries it.
Position(ft, nm) ==
    LET order == PreOrder(ft)
        hits == { k \in 1..Len(order) : ft.nodes[order[k]].name = nm }
    IN  IF hits = {} THEN None
        ELSE Some((CHOOSE k \in hits : \A j \in hits : k <= j) - 1)

----------------------------------------------------------------------------
(* The SPR operator.                                                       *)

SetParent(ft, i, v) == [ft EXCEPT !.nodes[i].parent = v]
SetLeft(ft, i, v) == [ft EXCEPT !.nodes[i].left_child = v]
SetRight(ft, i, v) == [ft EXCEPT !.nodes[i].right_child = v]
SetDepth(ft, i, v) == [ft EXCEPT !.nodes[i].depth = v]

\* The outcome of a call: the arena as the call leaves it and how it ended
\* ("ok", or the panic that stopped it).
Outcome(st, ft) == [status |-> st, tree |-> ft]

\* if flat_tree[at].left_child.unwrap() == old { left_child = new } else { right_child = new }
ReplaceChild(ft, at, old, new) ==
    IF ft.nodes[at].left_child = None THEN Outcome("unwrap_none", ft)
    ELSE IF Unwrap(ft.nodes[at].left_child) = old
         THEN Outcome("ok", SetLeft(ft, at, Some(new)))
         ELSE Outcome("ok", SetRight(ft, at, Some(new)))

\* Faulty variant of AttachDonor: the parent link is written on donor_parent.
AttachDonorWrongNode(ft, donor, donor_parent, recipient_parent) ==
    LET swapped == ReplaceChild(ft, donor_parent, donor, recipient_parent)
    IN  IF swapped.status # "ok" THEN swapped
        ELSE Outcome("ok", SetParent(swapped.tree, donor_parent, Some(recipient_parent)))

\* Rewiring of donor_parent and donor, the tail shared by both branches.
AttachDonor(ft, donor, donor_parent, recipient_parent) ==
    LET swapped == ReplaceChild(ft, donor_parent, donor, recipient_parent)
    IN  IF swapped.status # "ok" THEN swapped
        ELSE Outcome("ok", SetParent(swapped.tree, donor, Some(recipient_parent)))

\* Faulty variant of SprRootCase: donor replaces recipient, as in the other branch.
SprRootCaseRecipientSlot(ft, donor, recipient, time, donor_parent, recipient_parent, recipient_sibling) ==
    LET t1 == SetParent(ft, recipient_sibling, None)
        t2 == [t1 EXCEPT !.root = recipient_sibling]
        t3 == SetParent(t2, recipient_parent, Some(donor_parent))
        j == ReplaceChild(t3, recipient_parent, recipient, donor)
    IN  IF j.status # "ok" THEN j
        ELSE AttachDonor(SetDepth(j.tree, recipient_parent, Some(time)),
                         donor, donor_parent, recipient_parent)

\* Branch taken when recipient_parent is the root.
SprRootCase(ft, donor, recipient, time, donor_parent, recipient_parent, recipient_sibling) ==
    LET t1 == SetParent(ft, recipient_sibling, None)
        t2 == [t1 EXCEPT !.root = recipient_sibling]
        t3 == SetParent(t2, recipient_parent, Some(donor_parent))
    IN  IF t3.nodes[recipient_parent].left_child = None THEN Outcome("unwrap_none", t3)
        ELSE LET t4 == IF Unwrap(t3.nodes[recipient_parent].left_child) = recipient
                       THEN SetRight(t3, recipient_parent, Some(donor))
                       ELSE SetLeft(t3, recipient_parent, Some(donor))
                 t5 == SetDepth(t4, recipient_parent, Some(time))
             IN  AttachDonor(t5, donor, donor_parent, recipient_parent)

\* Branch taken when recipient_parent has a parent.
SprInnerCase(ft, donor, recipient, time, donor_parent, recipient_parent, recipient_sibling) ==
    LET recipient_grandparent == ft.nodes[recipient_parent].parent
        t1 == SetParent(ft, recipient_parent, Some(donor_parent))
        j == ReplaceChild(t1, recipient_parent, recipient, donor)
    IN  IF j.status # "ok" THEN j
        ELSE LET t3 == SetDepth(j.tree, recipient_parent, Some(time))
                 gp == Unwrap(recipient_grandparent)
                 g == IF recipient_grandparent = None THEN Outcome("ok", t3)
                      ELSE ReplaceChild(t3, gp, recipient_parent, recipient_sibling)
             IN  IF g.status # "ok" THEN g
                 ELSE LET t5 == IF recipient_grandparent = None THEN g.tree
                                ELSE SetParent(g.tree, recipient_sibling, Some(gp))
                      IN  AttachDonor(t5, donor, donor_parent, recipient_parent)

\* Lines 26-107: the sibling of recipient, then one of the two branches.
SprRewire(flat_tree, donor, recipient, time) ==
    LET donor_parent == Unwrap(flat_tree.nodes[donor].parent)
        recipient_parent == Unwrap(flat_tree.nodes[recipient].parent)
        rp == flat_tree.nodes[recipient_parent]
    IN  IF rp.left_child = None
               \/ (Unwrap(rp.left_child) = recipient /\ rp.right_child = None)
        THEN Outcome("unwrap_none", flat_tree)
        ELSE LET recipient_sibling ==
                     IF Unwrap(rp.left_child) = recipient
                     THEN Unwrap(rp.right_child) ELSE Unwrap(rp.left_child)
             IN  IF rp.parent = None
                 THEN SprRootCase(flat_tree, donor, recipient, time,
                                  donor_parent, recipient_parent, recipient_sibling)
                 ELSE SprInnerCase(flat_tree, donor, recipient, time,
                                   donor_parent, recipient_parent, recipient_sibling)

\* Faulty variant of Spr: the recipient is only looked at once the donor is detached.
SprDetachFirst(flat_tree, donor, recipient, time) ==
    IF flat_tree.nodes[donor].parent = None THEN Outcome("donor_root", flat_tree)
    ELSE IF flat_tree.nodes[recipient].parent = None
         THEN Outcome("recipient_root", SetParent(flat_tree, donor, None))
    ELSE SprRewire(flat_tree, donor, recipient, time)

\* The two expect calls, then the rewiring.
Spr(flat_tree, donor, recipient, time) ==
    IF flat_tree.nodes[donor].parent = None THEN Outcome("donor_root", flat_tree)
    ELSE IF flat_tree.nodes[recipient].parent = None THEN Outcome("recipient_root", flat_tree)
    ELSE SprRewire(flat_tree, donor, recipient, time)

----------------------------------------------------------------------------
(* Steps of main other than spr.                                           *)

\* The ancestor walk of main: from the parent of donor_index up to the root,
\* TRUE when some node on the way is recipient_index.
RECURSIVE WalkMeets(_, _, _)
WalkMeets(ft, current, target) ==
    IF current = None THEN FALSE
    ELSE IF Unwrap(current) = target THEN TRUE
    ELSE WalkMeets(ft, ft.nodes[Unwrap(current)].parent, target)

\* Faulty variant of InvalidMove: only the parent of donor_index is tested.
InvalidMoveParentOnly(ft, donor_index, recipient_index) ==
    ft.nodes[donor_index].parent = Some(recipient_index)

\* Faulty variant of InvalidMove: the walk starts at donor_index itself.
InvalidMoveFromDonor(ft, donor_index, recipient_index) ==
    WalkMeets(ft, Some(donor_index), recipient_index)

InvalidMove(ft, donor_index, recipient_index) ==
    WalkMeets(ft, ft.nodes[donor_index].parent, recipient_index)

\* flat_tree.nodes.iter().position(|node| node.parent.is_none())
RootScan(ft) ==
    LET orphans == { i \in Indices(ft) : ft.nodes[i].parent = None }
    IN  IF orphans = {} THEN None
        ELSE Some(CHOOSE i \in orphans : \A j \in orphans : i <= j)

\* to_node: from an index, a hierarchical node with the arena node's name, no
\* children when both child slots are absent, otherwise the two children
\* built recursively.  A descent deeper than the number of nodes only happens
\* on a cyclic arena, where the recursion never returns: Diverges.
Diverges == [name |-> "", kids |-> <<"diverges">>]

RECURSIVE ToNodeFrom(_, _, _)
ToNodeFrom(ft, i, fuel) ==
    IF fuel = 0 THEN Diverges
    ELSE IF ft.nodes[i].left_child = None /\ ft.nodes[i].right_child = None
         THEN Leaf(ft.nodes[i].name)
    ELSE IF ft.nodes[i].left_child = None \/ ft.nodes[i].right_child = None
         THEN Diverges
    ELSE LET l == ToNodeFrom(ft, Unwrap(ft.nodes[i].left_child), fuel - 1)
             r == ToNodeFrom(ft, Unwrap(ft.nodes[i].right_child), fuel - 1)
         IN  IF l = Diverges \/ r = Diverges THEN Diverges
             ELSE Inner(ft.nodes[i].name, l, r)

ToNode(ft) == ToNodeFrom(ft, ft.root, Cardinality(Indices(ft)))

----------------------------------------------------------------------------
(* The workflow of main as a state machine.                                *)

VARIABLES
    pc,               \* position in main
    node_tree,        \* the parsed hierarchical tree
    donor_name,       \* args[2]
    recipient_name,   \* args[3]
    flat_tree,        \* the arena
    donor_index,      \* Option: index found for donor_name
    recipient_index,  \* Option: index found for recipient_name
    gene_tree,        \* Option: the tree lifted from the arena, which is written out
    fatal,            \* message of the panic that aborted the process, "" if none
    exit_code         \* Option: the exit status once the process has ended

vars == <<pc, node_tree, donor_name, recipient_name, flat_tree, donor_index,
          recipient_index, gene_tree, fatal, exit_code>>

EmptyArena == [nodes |-> <<>>, root |-> 0]

\* A panic aborts the process; 101 is the exit status of a panicked Rust process.
Panic(msg) ==
    /\ pc' = "panic"
    /\ fatal' = msg
    /\ exit_code' = Some(101)

\* The state once the first tree of the file is parsed.
Init ==
    /\ pc = "parsed"
    /\ node_tree \in InputTrees
    /\ donor_name \in InputNames
    /\ recipient_name \in InputNames
    /\ flat_tree = EmptyArena
    /\ donor_index = None
    /\ recipient_index = None
    /\ gene_tree = None
    /\ fatal = ""
    /\ exit_code = None

Lower ==
    /\ pc = "parsed"
    /\ flat_tree' = ToFlatTree(node_tree)
    /\ pc' = "lowered"
    /\ UNCHANGED <<node_tree, donor_name, recipient_name, donor_index, recipient_index,
                   gene_tree, fatal, exit_code>>

LocateDonor ==
    /\ pc = "lowered"
    /\ LET found == Position(flat_tree, donor_name)
       IN  IF found = None
           THEN /\ Panic("Donor not found in tree")
                /\ UNCHANGED donor_index
           ELSE /\ donor_index' = found
                /\ pc' = "donor_found"
                /\ UNCHANGED <<fatal, exit_code>>
    /\ UNCHANGED <<node_tree, donor_name, recipient_name, flat_tree, recipient_index,
                   gene_tree>>

LocateRecipient ==
    /\ pc = "donor_found"
    /\ LET found == Position(flat_tree, recipient_name)
       IN  IF found = None
           THEN /\ Panic("Recipient not found in tree")
                /\ UNCHANGED recipient_index
           ELSE /\ recipient_index' = found
                /\ pc' = "located"
                /\ UNCHANGED <<fatal, exit_code>>
    /\ UNCHANGED <<node_tree, donor_name, recipient_name, flat_tree, donor_index,
                   gene_tree>>

Validate ==
    /\ pc = "located"
    /\ IF InvalidMove(flat_tree, Unwrap(donor_index), Unwrap(recipient_index))
       THEN /\ pc' = "exit1"
            /\ exit_code' = Some(1)
       ELSE /\ pc' = "validated"
            /\ UNCHANGED exit_code
    /\ UNCHANGED <<node_tree, donor_name, recipient_name, flat_tree, donor_index,
                   recipient_index, gene_tree, fatal>>

CallSpr ==
    /\ pc = "validated"
    /\ LET out == Spr(flat_tree, Unwrap(donor_index), Unwrap(recipient_index), SprTime)
       IN  /\ flat_tree' = out.tree
           /\ IF out.status = "ok"
              THEN /\ pc' = "spr_done"
                   /\ UNCHANGED <<fatal, exit_code>>
              ELSE Panic(CASE out.status = "donor_root" ->
                                  "The donor node should not be the root"
                           [] out.status = "recipient_root" ->
                                  "The recipient node should not be the root"
                           [] OTHER -> "called Option::unwrap() on a None value")
    /\ UNCHANGED <<node_tree, donor_name, recipient_name, donor_index, recipient_index,
                   gene_tree>>

UpdateRoot ==
    /\ pc = "spr_done"
    /\ LET root_index == RootScan(flat_tree)
       IN  IF root_index = None
           THEN /\ Panic("No root found in the tree")
                /\ UNCHANGED flat_tree
           ELSE /\ flat_tree' = [flat_tree EXCEPT !.root = Unwrap(root_index)]
                /\ pc' = "rooted"
                /\ UNCHANGED <<fatal, exit_code>>
    /\ UNCHANGED <<node_tree, donor_name, recipient_name, donor_index, recipient_index,
                   gene_tree>>

Lift ==
    /\ pc = "rooted"
    /\ LET lifted == ToNode(flat_tree)
       IN  IF lifted = Diverges
           THEN /\ Panic("stack overflow")
                /\ UNCHANGED gene_tree
           ELSE /\ gene_tree' = Some(lifted)
                /\ pc' = "done"
                /\ exit_code' = Some(0)
                /\ UNCHANGED fatal
    /\ UNCHANGED <<node_tree, donor_name, recipient_name, flat_tree, donor_index,
                   recipient_index>>

Next ==
    \/ Lower
    \/ LocateDonor
    \/ LocateRecipient
    \/ Validate
    \/ CallSpr
    \/ UpdateRoot
    \/ Lift

Spec == Init /\ [][Next]_vars

\* spr called on its own: any arena lowered from an input tree, any two indices.
InitSpr ==
    /\ pc = "validated"
    /\ node_tree \in InputTrees
    /\ donor_name = ""
    /\ recipient_name = ""
    /\ flat_tree = ToFlatTree(node_tree)
    /\ donor_index \in { Some(i) : i \in Indices(ToFlatTree(node_tree)) }
    /\ recipient_index \in { Some(i) : i \in Indices(ToFlatTree(node_tree)) }
    /\ gene_tree = None
    /\ fatal = ""
    /\ exit_code = None

NextSpr ==
    \/ CallSpr
    \/ UpdateRoot

SpecSpr == InitSpr /\ [][NextSpr]_vars

\* The arena before spr.
Before == ToFlatTree(node_tree)

----------------------------------------------------------------------------
(* Vocabulary of the properties.                                           *)

Donor == Unwrap(donor_index)
Recipient == Unwrap(recipient_index)

\* The k-th node up the parent links from i (i itself for k = 0), None past the root.
RECURSIVE Up(_, _, _)
Up(ft, i, k) ==
    IF k = 0 THEN Some(i)
    ELSE IF ft.nodes[i].parent = None THEN None
    ELSE Up(ft, Unwrap(ft.nodes[i].parent), k - 1)

\* a is a proper ancestor of d.
ProperAncestor(ft, a, d) ==
    \E k \in 1..Cardinality(Indices(ft)) : Up(ft, d, k) = Some(a)

Orphans(ft) == { i \in Indices(ft) : ft.nodes[i].parent = None }

SingleRoot(ft) == Orphans(ft) = {ft.root}

ReachesRoot(ft) ==
    \A i \in Indices(ft) : \E k \in 0..Cardinality(Indices(ft)) : Up(ft, i, k) = Some(ft.root)

StrictlyBinary(ft) ==
    \A i \in Indices(ft) : (ft.nodes[i].left_child = None) <=> (ft.nodes[i].right_child = None)

BackReferences(ft) ==
    \A i \in Indices(ft) \ {ft.root} :
        /\ ft.nodes[i].parent # None
        /\ LET p == ft.nodes[Unwrap(ft.nodes[i].parent)]
           IN  (p.left_child = Some(i)) # (p.right_child = Some(i))

ArenaInvariants(ft) ==
    /\ SingleRoot(ft)
    /\ ReachesRoot(ft)
    /\ StrictlyBinary(ft)
    /\ BackReferences(ft)

NonRoot(ft, i) == ft.nodes[i].parent # None

\* The inputs the specification calls valid for spr.
ValidPair ==
    /\ Donor # Recipient
    /\ NonRoot(Before, Donor)
    /\ NonRoot(Before, Recipient)
    /\ ~ProperAncestor(Before, Donor, Recipient)

DonorParent == Unwrap(Before.nodes[Donor].parent)
RecipientParent == Unwrap(Before.nodes[Recipient].parent)
RecipientSibling ==
    IF Before.nodes[RecipientParent].left_child = Some(Recipient)
    THEN Unwrap(Before.nodes[RecipientParent].right_child)
    ELSE Unwrap(Before.nodes[RecipientParent].left_child)

\* Both are non-root and recipient_parent is the root / has a parent.
RootCase ==
    /\ NonRoot(Before, Donor)
    /\ NonRoot(Before, Recipient)
    /\ ~NonRoot(Before, RecipientParent)
InnerCase ==
    /\ NonRoot(Before, Donor)
    /\ NonRoot(Before, Recipient)
    /\ NonRoot(Before, RecipientParent)

\* Both names were found and the validation loop has run.
PastValidation == recipient_index # None /\ pc # "located"

SprPanics ==
    {"The donor node should not be the root", "The recipient node should not be the root",
     "called Option::unwrap() on a None value"}

\* spr is about to be called, or was called.
SprEntered ==
    \/ pc \in {"validated", "spr_done", "rooted", "done"}
    \/ pc = "panic" /\ fatal \in SprPanics \cup {"No root found in the tree", "stack overflow"}

\* spr was called and panicked.
SprFailed == pc = "panic" /\ fatal \in SprPanics

\* Same tree up to the order of siblings and the names of internal nodes.
RECURSIVE SameShape(_, _)
SameShape(a, b) ==
    IF IsLeaf(a) \/ IsLeaf(b) THEN IsLeaf(a) /\ IsLeaf(b) /\ a.name = b.name
    ELSE \/ SameShape(a.kids[1], b.kids[1]) /\ SameShape(a.kids[2], b.kids[2])
         \/ SameShape(a.kids[1], b.kids[2]) /\ SameShape(a.kids[2], b.kids[1])

\* ((A,B),(C,D)) and ((B,D),(A,C))
Example1 == Inner("", Inner("", Leaf("A"), Leaf("B")), Inner("", Leaf("C"), Leaf("D")))
Example1Expected == Inner("", Inner("", Leaf("B"), Leaf("D")), Inner("", Leaf("A"), Leaf("C")))

----------------------------------------------------------------------------
(* The claims.                                                             *)

\* C1: for distinct non-root donor and recipient with donor not an ancestor of
\* recipient, the arena after spr satisfies every arena invariant (single root
\* equal to tree.root, every node reaches the root, zero or two children,
\* every non-root node is exactly one child of its parent) and has the same
\* nodes.
C1_InvariantsPreserved ==
    (pc = "spr_done" /\ ValidPair) =>
        /\ ArenaInvariants(flat_tree)
        /\ Indices(flat_tree) = Indices(Before)

\* C2 as stated: whenever donor is an ancestor of recipient, main rejects the
\* move before spr: exit code 1 and the arena as it was lowered.
C2_DonorAncestorRejected ==
    (PastValidation /\ ProperAncestor(Before, Donor, Recipient)) =>
        /\ pc = "exit1"
        /\ exit_code = Some(1)
        /\ flat_tree = Before

\* C2 amended: whenever recipient is a proper ancestor of donor, main rejects
\* the move before spr: exit code 1 and the arena as it was lowered.
C2_RecipientAncestorRejected ==
    (PastValidation /\ ProperAncestor(Before, Recipient, Donor)) =>
        /\ pc = "exit1"
        /\ exit_code = Some(1)
        /\ flat_tree = Before

C2_Witness ==
    /\ pc = "exit1"
    /\ exit_code = Some(1)
    /\ ProperAncestor(Before, Recipient, Donor)
    /\ Before.nodes[Donor].parent # Some(Recipient)

\* C3 as stated: validation fails only when donor is an ancestor of recipient;
\* for distinct non-root nodes with donor not an ancestor of recipient,
\* validation passes and spr is called.
C3_FailsOnlyForDonorAncestor ==
    PastValidation =>
        /\ (pc = "exit1" \/ exit_code = Some(1)) => ProperAncestor(Before, Donor, Recipient)
        /\ ValidPair => SprEntered

\* C3 amended: validation fails only when recipient is a proper ancestor of
\* donor; for every other pair of nodes validation passes and spr is called.
C3_FailsOnlyForRecipientAncestor ==
    PastValidation =>
        /\ (pc = "exit1" \/ exit_code = Some(1)) => ProperAncestor(Before, Recipient, Donor)
        /\ ~ProperAncestor(Before, Recipient, Donor) => SprEntered

C3_Witness ==
    /\ pc = "spr_done"
    /\ ProperAncestor(Before, Donor, Recipient)

\* C4: for every valid input, after spr the two children of recipient_parent
\* are the recipient and the donor, each with parent recipient_parent;
\* donor_parent holds recipient_parent in the slot that held donor; and
\* recipient_sibling is no child of recipient_parent, its parent being the
\* grandparent, or absent when recipient_parent was the root.
C4_NetEffect ==
    (pc = "spr_done" /\ ValidPair) =>
        LET rp == flat_tree.nodes[RecipientParent]
            dpBefore == Before.nodes[DonorParent]
            dp == flat_tree.nodes[DonorParent]
        IN  /\ {rp.left_child, rp.right_child} = {Some(Recipient), Some(Donor)}
            /\ flat_tree.nodes[Recipient].parent = Some(RecipientParent)
            /\ flat_tree.nodes[Donor].parent = Some(RecipientParent)
            /\ dpBefore.left_child = Some(Donor) => dp.left_child = Some(RecipientParent)
            /\ dpBefore.right_child = Some(Donor) => dp.right_child = Some(RecipientParent)
            /\ Some(RecipientSibling) \notin {rp.left_child, rp.right_child}
            /\ flat_tree.nodes[RecipientSibling].parent = Before.nodes[RecipientParent].parent

\* C5: spr called with a root donor or a root recipient panics with the arena
\* as it was before the call, and spr panics in no other way.
C5_RootPanicsUntouched ==
    /\ SprFailed =>
          /\ flat_tree = Before
          /\ ~NonRoot(Before, Donor) \/ ~NonRoot(Before, Recipient)
          /\ fatal # "called Option::unwrap() on a None value"
    /\ (pc # "validated" /\ (~NonRoot(Before, Donor) \/ ~NonRoot(Before, Recipient))) =>
          SprFailed

C5_Witness ==
    /\ SprFailed
    /\ NonRoot(Before, Donor)
    /\ ~NonRoot(Before, Recipient)
    /\ flat_tree = Before

\* C6: main never calls spr with donor_index equal to recipient_index.
C6_DistinctEnforced ==
    pc = "validated" => donor_index # recipient_index

\* C7: the workflow on ((A,B),(C,D)) with donor A and recipient C ends with
\* the tree ((B,D),(A,C)), up to the order of siblings.
C7_Example1 ==
    (node_tree = Example1 /\ donor_name = "A" /\ recipient_name = "C"
        /\ pc \in {"done", "panic", "exit1"}) =>
        /\ pc = "done"
        /\ SameShape(Unwrap(gene_tree), Example1Expected)

\* C8: when recipient_parent is the root, for distinct non-root donor and
\* recipient with donor not an ancestor of recipient, after spr tree.root is
\* recipient_sibling, which has no parent and is the only such node, so the
\* scan for a parentless node finds it.
C8_SiblingPromoted ==
    (pc = "spr_done" /\ RootCase /\ ValidPair) =>
        /\ flat_tree.root = RecipientSibling
        /\ flat_tree.nodes[RecipientSibling].parent = None
        /\ Orphans(flat_tree) = {RecipientSibling}
        /\ RootScan(flat_tree) = Some(RecipientSibling)

\* C9: when recipient_parent has a parent, spr leaves tree.root unchanged and
\* the node at tree.root still has no parent, for every non-root donor and
\* recipient.
C9_RootStays ==
    (pc = "spr_done" /\ InnerCase) =>
        /\ flat_tree.root = Before.root
        /\ flat_tree.nodes[flat_tree.root].parent = None

C9_Witness ==
    /\ pc = "spr_done"
    /\ InnerCase
    /\ DonorParent = Before.root
    /\ flat_tree # Before

\* C10 as stated: when recipient_parent is the root, spr (on an input the
\* specification calls valid) overwrites with donor the child slot of
\* recipient_parent that held recipient and leaves the other slot unchanged.
C10_RecipientSlotOverwritten ==
    (pc = "spr_done" /\ RootCase /\ ValidPair) =>
        LET was == Before.nodes[RecipientParent]
            rp == flat_tree.nodes[RecipientParent]
        IN  IF was.left_child = Some(Recipient)
            THEN rp.left_child = Some(Donor) /\ rp.right_child = was.right_child
            ELSE rp.right_child = Some(Donor) /\ rp.left_child = was.left_child

\* C10 amended: when recipient_parent is the root and donor is not recipient,
\* spr leaves unchanged the child slot of recipient_parent that held recipient
\* and overwrites the other slot, which held recipient_sibling: it holds donor
\* after the call, or recipient_parent itself when donor is recipient_sibling.
C10_SiblingSlotOverwritten ==
    (pc = "spr_done" /\ RootCase /\ Donor # Recipient) =>
        LET was == Before.nodes[RecipientParent]
            rp == flat_tree.nodes[RecipientParent]
            put == IF Donor = RecipientSibling THEN Some(RecipientParent) ELSE Some(Donor)
        IN  IF was.left_child = Some(Recipient)
            THEN rp.left_child = Some(Recipient) /\ rp.right_child = put
            ELSE rp.right_child = Some(Recipient) /\ rp.left_child = put

C10_Witness ==
    /\ pc = "spr_done"
    /\ RootCase
    /\ Donor # Recipient
    /\ Donor # RecipientSibling
    /\ Some(Donor) \in {flat_tree.nodes[RecipientParent].left_child,
                        flat_tree.nodes[RecipientParent].right_child}

====
